---- MODULE Spec2Model ----
(***************************************************************************)
(* Model of scripts/homedepot_scraper.py: the retrying fetch, the card     *)
(* extraction, price normalisation, penny-deal classification and the two  *)
(* output writes of main().                                                *)
(*                                                                         *)
(* Text is modelled as sequences of one-character strings.  Times are      *)
(* natural numbers read from a non-decreasing clock.  Prices are exact     *)
(* decimals (numerator over a power of ten); the rounding of a decimal to  *)
(* the nearest binary double is not modelled.                              *)
(***************************************************************************)
EXTENDS Integers, Sequences, FiniteSets, TLC

VARIABLES
    pc,               \* position of main(): see the actions below
    retries,          \* args.retries
    backoff,          \* args.backoff
    attempt,          \* fetch_with_retries: local `attempt`
    outcomes,         \* history: outcome of every client.get issued, in order
    sleeps,           \* history: argument of every time.sleep call, in order
    response,         \* the response fetch_with_retries returned
    clientOpen,       \* the httpx.Client of scrape_deals is open
    clientsAcquired,  \* history: number of httpx.Client objects constructed
    now,              \* the clock
    firstFetchAt,     \* history: clock at the first client.get
    selector,         \* Selector(response.text): the cards of the page
    results,          \* scrape_deals: `results`
    penny_deals,      \* main: `penny_deals`
    payload,          \* main: `payload`
    prior_run,        \* a previous run left its directory and files on disk
    dirExists,        \* output_path.parent exists
    jsonFile,         \* state of output_path on disk
    csvFile,          \* state of csv_path on disk
    error,            \* the exception that ended the run, "none" if none
    raw_price,        \* normalize_price: argument
    price_value,      \* normalize_price: returned value
    norm_pc           \* position of the normalize_price call

vars == <<pc, retries, backoff, attempt, outcomes, sleeps, response, clientOpen,
          clientsAcquired, now, firstFetchAt, selector, results, penny_deals,
          payload, prior_run, dirExists, jsonFile, csvFile, error,
          raw_price, price_value, norm_pc>>

runVars == <<pc, retries, backoff, attempt, outcomes, sleeps, response, clientOpen,
             clientsAcquired, now, firstFetchAt, selector, results, penny_deals,
             payload, prior_run, dirExists, jsonFile, csvFile, error>>

normVars == <<raw_price, price_value, norm_pc>>

----------------------------------------------------------------------------
(* Bounds of the model. *)

MaxRetries == 2
MaxBackoff == 2
MaxCards == 2
MaxLen == 3

----------------------------------------------------------------------------
(* Text helpers. *)

RECURSIVE Chars(_, _)
(* All sequences over alphabet A of length at most n. *)
Chars(A, n) ==
    IF n = 0 THEN {<<>>}
    ELSE LET shorter == Chars(A, n - 1)
         IN shorter \cup {Append(s, c) : s \in {t \in shorter : Len(t) = n - 1}, c \in A}

RECURSIVE Remove(_, _)
(* str.replace(c, ""): every occurrence of the character c removed. *)
Remove(s, c) ==
    IF s = <<>> THEN <<>>
    ELSE IF Head(s) = c THEN Remove(Tail(s), c)
    ELSE <<Head(s)>> \o Remove(Tail(s), c)

Whitespace == {" "}

RECURSIVE LStrip(_)
LStrip(s) ==
    IF s # <<>> /\ Head(s) \in Whitespace THEN LStrip(Tail(s)) ELSE s

RECURSIVE RStrip(_)
RStrip(s) ==
    IF s # <<>> /\ s[Len(s)] \in Whitespace THEN RStrip(SubSeq(s, 1, Len(s) - 1)) ELSE s

(* str.strip() *)
Strip(s) == RStrip(LStrip(s))

Digits == {"0", "1", "2", "3", "4", "5", "6", "7", "8", "9"}

DigitVal(c) ==
    CASE c = "0" -> 0 [] c = "1" -> 1 [] c = "2" -> 2 [] c = "3" -> 3
      [] c = "4" -> 4 [] c = "5" -> 5 [] c = "6" -> 6 [] c = "7" -> 7
      [] c = "8" -> 8 [] c = "9" -> 9

(* str.lower() on the letters of the words float() recognises. *)
Lower(c) ==
    CASE c = "I" -> "i" [] c = "N" -> "n" [] c = "F" -> "f" [] c = "A" -> "a"
      [] c = "T" -> "t" [] c = "Y" -> "y" [] OTHER -> c

LowerAll(s) == [k \in 1..Len(s) |-> Lower(s[k])]

RECURSIVE Pow10(_)
Pow10(k) == IF k = 0 THEN 1 ELSE 10 * Pow10(k - 1)

RECURSIVE DigitsVal(_)
(* The natural number written by a sequence of digits. *)
DigitsVal(s) ==
    IF s = <<>> THEN 0
    ELSE 10 * DigitsVal(SubSeq(s, 1, Len(s) - 1)) + DigitVal(s[Len(s)])

AllDigits(s) == \A k \in 1..Len(s) : s[k] \in Digits

----------------------------------------------------------------------------
(* Price values.  None is Python's None; a float is nan, an infinity or a  *)
(* finite number num / den with den a power of ten.                        *)

None == [kind |-> "none", neg |-> FALSE, num |-> 0, den |-> 1]
NaN == [kind |-> "nan", neg |-> FALSE, num |-> 0, den |-> 1]
Inf(neg) == [kind |-> "inf", neg |-> neg, num |-> 0, den |-> 1]
Num(neg, num, den) == [kind |-> "num", neg |-> neg, num |-> num, den |-> den]

(* The float raised ValueError: the word for it inside FloatOf. *)
ValueError == [kind |-> "ValueError", neg |-> FALSE, num |-> 0, den |-> 1]

(* The unsigned part of a float literal: "inf", "infinity", "nan", or      *)
(* digits with at most one point and at least one digit.  Exponents and    *)
(* digit-group underscores are outside the alphabets of this model.        *)
FloatBody(neg, body) ==
    LET low == LowerAll(body)
        points == {k \in 1..Len(body) : body[k] = "."}
    IN  IF low = <<"i", "n", "f">> \/ low = <<"i", "n", "f", "i", "n", "i", "t", "y">>
          THEN Inf(neg)
        ELSE IF low = <<"n", "a", "n">> THEN NaN
        ELSE IF Cardinality(points) > 1 THEN ValueError
        ELSE LET p == IF points = {} THEN Len(body) + 1 ELSE CHOOSE k \in points : TRUE
                 int == SubSeq(body, 1, p - 1)
                 frac == SubSeq(body, p + 1, Len(body))
             IN  IF AllDigits(int) /\ AllDigits(frac) /\ Len(int) + Len(frac) > 0
                   THEN Num(neg, DigitsVal(int \o frac), Pow10(Len(frac)))
                   ELSE ValueError

(* float(s): surrounding whitespace, an optional sign, then the body. *)
FloatOf(s) ==
    LET t == Strip(s)
    IN  IF t = <<>> THEN ValueError
        ELSE IF Head(t) = "-" THEN FloatBody(TRUE, Tail(t))
        ELSE IF Head(t) = "+" THEN FloatBody(FALSE, Tail(t))
        ELSE FloatBody(FALSE, t)

(* normalize_price, lines 23-30. *)
normalize_price(raw) ==
    LET cleaned == Strip(Remove(Remove(raw, "$"), ","))
    IN  IF cleaned = <<>> THEN None
        ELSE LET f == FloatOf(cleaned)
             IN IF f = ValueError THEN None ELSE f

(* price_value < max_price, with max_price in hundredths: comparisons with *)
(* nan are false, -inf is below and +inf above every finite number.        *)
LessThan(v, max_cents) ==
    CASE v.kind = "nan" -> FALSE
      [] v.kind = "inf" -> v.neg
      [] v.kind = "num" ->
           (IF v.neg THEN 0 - v.num ELSE v.num) * 100 < max_cents * v.den
      [] OTHER -> FALSE

----------------------------------------------------------------------------
(* Constants of the program. *)

(* BASE_URL, line 18. *)
BASE_URL == <<"h", "t", "t", "p", "s", ":", "/", "/", "w", "w", "w", ".", "h", "o", "m", "e", "d", "e", "p", "o", "t", ".", "c", "a">>

(* The default of filter_penny_deals' max_price, 5.00, in hundredths. *)
DefaultMaxPrice == 500

Http == <<"h", "t", "t", "p">>

(* str.startswith *)
StartsWith(s, prefix) ==
    Len(s) >= Len(prefix) /\ SubSeq(s, 1, Len(prefix)) = prefix

RECURSIVE JoinSpace(_)
(* " ".join(nodes) *)
JoinSpace(nodes) ==
    IF nodes = <<>> THEN <<>>
    ELSE IF Len(nodes) = 1 THEN nodes[1]
    ELSE nodes[1] \o <<" ">> \o JoinSpace(Tail(nodes))

----------------------------------------------------------------------------
(* Pages.  A card is what the selectors of lines 96-101 find in one        *)
(* product card: the text nodes of its price, its title, badge and         *)
(* discount texts, and the href of its first link (has_href is FALSE when  *)
(* .get() returns None).                                                   *)

Card(title, price_nodes, badge, discount, has_href, href) ==
    [title |-> title, price_nodes |-> price_nodes, badge |-> badge,
     discount |-> discount, has_href |-> has_href, href |-> href]

CardSamples ==
    { Card("Widget", <<<<"$", "4", ".", "9", "9">>>>, "", "-50%", TRUE, <<"/", "p", "/", "1">>),
      Card("Gadget", <<<<"$", "1", "9", ".", "9", "9">>>>, "Clearance", "", TRUE, <<"/", "p", "/", "2">>),
      Card("Unlinked", <<<<"$", "4", ".", "9", "9">>>>, "", "", FALSE, <<>>),
      Card("EmptyLink", <<<<"$", "5", ".", "0", "0">>>>, "", "", TRUE, <<>>),
      Card("Partner", <<<<"$">>, <<"5", ".", "0", "0">>>>, "", "", TRUE, <<"h", "t", "t", "p", "s", ":", "/", "/", "o", "t", "h", "e", "r", ".", "e", "x", "a", "m", "p", "l", "e", "/", "x">>),
      Card("Unpriced", <<<<"N", "/", "A">>>>, "", "", TRUE, <<"/", "p", "/", "4">>) }

RECURSIVE Pages(_)
(* All pages of at most n cards, in document order. *)
Pages(n) ==
    IF n = 0 THEN {<<>>}
    ELSE LET shorter == Pages(n - 1)
         IN shorter \cup {Append(p, c) : p \in {q \in shorter : Len(q) = n - 1},
                                        c \in CardSamples}

----------------------------------------------------------------------------
(* fetch_with_retries, lines 39-52. *)

(* What client.get followed by raise_for_status can do: return a response  *)
(* (ok), raise httpx.TimeoutException (timeout), raise HTTPStatusError on  *)
(* a non-success status (bad_status), or raise another transport error.    *)
Failures == {"timeout", "bad_status", "connect_error"}

(* The except clause of line 48 catches only httpx.TimeoutException. *)
IsCaught_any(failure) == TRUE
IsCaught(failure) == failure = "timeout"

(* Line 50, `if attempt > retries: raise`. *)
RetriesExhausted_ge(a, r) == a >= r
RetriesExhausted(a, r) == a > r

(* Line 52, the argument of time.sleep. *)
BackoffWait_constant(b, a) == b
BackoffWait(b, a) == b * a

(* The `with httpx.Client(...) as client` block of lines 89-91: whether    *)
(* the client is still open once control has left the block, normally      *)
(* (raised = FALSE) or by an exception passing through it (raised = TRUE). *)
OpenAfterWith_leak(raised) == raised
OpenAfterWith(raised) == FALSE

----------------------------------------------------------------------------
(* scrape_deals, lines 93-115. *)

(* Line 102, `if not url_path`: None and the empty string are both falsy. *)
HrefMissing_none_only(card) == ~card.has_href
HrefMissing(card) == ~card.has_href \/ card.href = <<>>

(* Lines 96-112: the record of one card that has a link. *)
DealRecord(card, scraped_at) ==
    [title |-> card.title,
     price |-> Strip(JoinSpace(card.price_nodes)),
     discount |-> IF card.badge # "" THEN card.badge ELSE card.discount,
     url |-> IF StartsWith(card.href, Http) THEN card.href ELSE BASE_URL \o card.href,
     scraped_at |-> scraped_at]

RECURSIVE ExtractCards(_, _)
(* The loop of lines 95-113 over the cards, in document order. *)
ExtractCards(cards, scraped_at) ==
    IF cards = <<>> THEN <<>>
    ELSE IF HrefMissing(Head(cards)) THEN ExtractCards(Tail(cards), scraped_at)
    ELSE <<DealRecord(Head(cards), scraped_at)>> \o ExtractCards(Tail(cards), scraped_at)

----------------------------------------------------------------------------
(* filter_penny_deals, lines 118-126. *)

(* Lines 122-124: the record is appended iff the price is not None and is  *)
(* below max_price.                                                        *)
IsPenny_le(v, max_cents) == v # None /\ LessThan(v, max_cents + 1)
IsPenny(v, max_cents) == v # None /\ LessThan(v, max_cents)

RECURSIVE filter_penny_deals(_, _)
filter_penny_deals(deals, max_cents) ==
    IF deals = <<>> THEN <<>>
    ELSE IF IsPenny(normalize_price(Head(deals).price), max_cents)
           THEN <<Head(deals)>> \o filter_penny_deals(Tail(deals), max_cents)
           ELSE filter_penny_deals(Tail(deals), max_cents)

----------------------------------------------------------------------------
(* main, lines 141-175. *)

(* Line 159: the clock is read when the payload is built. *)
PayloadScrapedAt_run_start(at_start, at_build) == at_start
PayloadScrapedAt(at_start, at_build) == at_build

(* The clock starts at 0: the reading a run would take at line 142. *)
RunStartedAt == 0

(* How far the clock may have moved on when it is read. *)
Ticks == {0, 1}

NoResponse == [attempt |-> 0, page |-> <<>>]
NoPayload == [scraped_at |-> 0, source_url |-> "", deal_count |-> 0,
              penny_deal_count |-> 0, deals |-> <<>>, penny_deals |-> <<>>]

Init ==
    /\ pc = "start"
    /\ retries \in 0..MaxRetries
    /\ backoff \in 1..MaxBackoff
    /\ attempt = 0
    /\ outcomes = <<>>
    /\ sleeps = <<>>
    /\ response = NoResponse
    /\ clientOpen = FALSE
    /\ clientsAcquired = 0
    /\ now = RunStartedAt
    /\ firstFetchAt = 0
    /\ selector = <<>>
    /\ results = <<>>
    /\ penny_deals = <<>>
    /\ payload = NoPayload
    /\ prior_run \in BOOLEAN
    /\ dirExists = prior_run
    /\ jsonFile = IF prior_run THEN "old" ELSE "absent"
    /\ csvFile = IF prior_run THEN "old" ELSE "absent"
    /\ error = "none"
    /\ raw_price = <<>>
    /\ price_value = None
    /\ norm_pc = "idle"

(* An exception leaves main: the process ends with a traceback. *)
Raise(e) == pc' = "failed" /\ error' = e

(* Start with the directory created before the fetch (line 155 moved up). *)
Start_mkdir_first ==
    /\ pc = "start"
    /\ pc' = "request"
    /\ attempt' = 0
    /\ clientOpen' = TRUE
    /\ clientsAcquired' = clientsAcquired + 1
    /\ dirExists' = TRUE
    /\ UNCHANGED <<retries, backoff, outcomes, sleeps, response, now, firstFetchAt,
                   selector, results, penny_deals, payload, prior_run,
                   jsonFile, csvFile, error>>
    /\ UNCHANGED normVars

(* Lines 142-143 and 63-89: the client is constructed and entered. *)
Start ==
    /\ pc = "start"
    /\ pc' = "request"
    /\ attempt' = 0
    /\ clientOpen' = TRUE
    /\ clientsAcquired' = clientsAcquired + 1
    /\ UNCHANGED <<retries, backoff, outcomes, sleeps, response, now, firstFetchAt,
                   selector, results, penny_deals, payload, prior_run, dirExists,
                   jsonFile, csvFile, error>>
    /\ UNCHANGED normVars

(* Lines 45-47: the request succeeds and the response is returned. *)
RequestReturns ==
    /\ pc = "request"
    /\ \E page \in Pages(MaxCards) :
         response' = [attempt |-> Len(outcomes) + 1, page |-> page]
    /\ outcomes' = Append(outcomes, "ok")
    /\ firstFetchAt' = IF outcomes = <<>> THEN now ELSE firstFetchAt
    /\ pc' = "parse"
    /\ UNCHANGED <<retries, backoff, attempt, sleeps, clientOpen, clientsAcquired, now,
                   selector, results, penny_deals, payload, prior_run, dirExists,
                   jsonFile, csvFile, error>>
    /\ UNCHANGED normVars

(* Lines 45-51: the request fails with an exception the except clause      *)
(* catches; it is re-raised when the retries are used up.                  *)
RequestCaught ==
    /\ pc = "request"
    /\ \E f \in Failures :
         /\ IsCaught(f)
         /\ outcomes' = Append(outcomes, f)
         /\ attempt' = attempt + 1
         /\ IF RetriesExhausted(attempt + 1, retries)
              THEN Raise(f) /\ clientOpen' = OpenAfterWith(TRUE)
              ELSE pc' = "sleep" /\ UNCHANGED <<error, clientOpen>>
    /\ firstFetchAt' = IF outcomes = <<>> THEN now ELSE firstFetchAt
    /\ UNCHANGED <<retries, backoff, sleeps, response, clientsAcquired, now,
                   selector, results, penny_deals, payload, prior_run, dirExists,
                   jsonFile, csvFile>>
    /\ UNCHANGED normVars

(* Lines 45-46: the request fails with an exception no clause catches. *)
RequestUncaught ==
    /\ pc = "request"
    /\ \E f \in Failures :
         /\ ~IsCaught(f)
         /\ outcomes' = Append(outcomes, f)
         /\ Raise(f)
    /\ clientOpen' = OpenAfterWith(TRUE)
    /\ firstFetchAt' = IF outcomes = <<>> THEN now ELSE firstFetchAt
    /\ UNCHANGED <<retries, backoff, attempt, sleeps, response, clientsAcquired, now,
                   selector, results, penny_deals, payload, prior_run, dirExists,
                   jsonFile, csvFile>>
    /\ UNCHANGED normVars

(* Line 52: the wait before the next attempt. *)
Sleep ==
    /\ pc = "sleep"
    /\ sleeps' = Append(sleeps, BackoffWait(backoff, attempt))
    /\ now' = now + BackoffWait(backoff, attempt)
    /\ pc' = "request"
    /\ UNCHANGED <<retries, backoff, attempt, outcomes, response, clientOpen,
                   clientsAcquired, firstFetchAt, selector, results, penny_deals,
                   payload, prior_run, dirExists, jsonFile, csvFile, error>>
    /\ UNCHANGED normVars

(* Line 91: the response text is parsed and the with block is left. *)
ParseReturns ==
    /\ pc = "parse"
    /\ selector' = response.page
    /\ clientOpen' = OpenAfterWith(FALSE)
    /\ pc' = "extract"
    /\ UNCHANGED <<retries, backoff, attempt, outcomes, sleeps, response,
                   clientsAcquired, now, firstFetchAt, results, penny_deals,
                   payload, prior_run, dirExists, jsonFile, csvFile, error>>
    /\ UNCHANGED normVars

(* Line 91: decoding or parsing the response raises. *)
ParseRaises ==
    /\ pc = "parse"
    /\ Raise("parse_error")
    /\ clientOpen' = OpenAfterWith(TRUE)
    /\ UNCHANGED <<retries, backoff, attempt, outcomes, sleeps, response,
                   clientsAcquired, now, firstFetchAt, selector, results, penny_deals,
                   payload, prior_run, dirExists, jsonFile, csvFile>>
    /\ UNCHANGED normVars

(* Lines 93-115: the clock is read once, then every card is visited. *)
Extract ==
    /\ pc = "extract"
    /\ \E t \in Ticks : now' = now + t
    /\ results' = ExtractCards(selector, now')
    /\ pc' = "classify"
    /\ UNCHANGED <<retries, backoff, attempt, outcomes, sleeps, response, clientOpen,
                   clientsAcquired, firstFetchAt, selector, penny_deals,
                   payload, prior_run, dirExists, jsonFile, csvFile, error>>
    /\ UNCHANGED normVars

(* Line 152. *)
Classify ==
    /\ pc = "classify"
    /\ penny_deals' = filter_penny_deals(results, DefaultMaxPrice)
    /\ pc' = "mkdir"
    /\ UNCHANGED <<retries, backoff, attempt, outcomes, sleeps, response, clientOpen,
                   clientsAcquired, now, firstFetchAt, selector, results,
                   payload, prior_run, dirExists, jsonFile, csvFile, error>>
    /\ UNCHANGED normVars

(* Lines 154-156: the output directory is created if it is not there. *)
MkdirReturns ==
    /\ pc = "mkdir"
    /\ dirExists' = TRUE
    /\ pc' = "payload"
    /\ UNCHANGED <<retries, backoff, attempt, outcomes, sleeps, response, clientOpen,
                   clientsAcquired, now, firstFetchAt, selector, results, penny_deals,
                   payload, prior_run, jsonFile, csvFile, error>>
    /\ UNCHANGED normVars

(* Line 155: mkdir raises OSError. *)
MkdirRaises ==
    /\ pc = "mkdir"
    /\ Raise("io_error")
    /\ UNCHANGED <<retries, backoff, attempt, outcomes, sleeps, response, clientOpen,
                   clientsAcquired, now, firstFetchAt, selector, results, penny_deals,
                   payload, prior_run, dirExists, jsonFile, csvFile>>
    /\ UNCHANGED normVars

(* Lines 158-165. *)
BuildPayload ==
    /\ pc = "payload"
    /\ \E t \in Ticks : now' = now + t
    /\ payload' = [scraped_at |-> PayloadScrapedAt(RunStartedAt, now'),
                   source_url |-> "CLEARANCE_URL",
                   deal_count |-> Len(results),
                   penny_deal_count |-> Len(penny_deals),
                   deals |-> results,
                   penny_deals |-> penny_deals]
    /\ pc' = "write_json"
    /\ UNCHANGED <<retries, backoff, attempt, outcomes, sleeps, response, clientOpen,
                   clientsAcquired, firstFetchAt, selector, results, penny_deals,
                   prior_run, dirExists, jsonFile, csvFile, error>>
    /\ UNCHANGED normVars

(* Line 167: write_text opens the file for writing, which truncates it,    *)
(* writes the text and closes it.                                          *)
WriteJsonReturns ==
    /\ pc = "write_json"
    /\ jsonFile' = "new"
    /\ pc' = "write_csv"
    /\ UNCHANGED <<retries, backoff, attempt, outcomes, sleeps, response, clientOpen,
                   clientsAcquired, now, firstFetchAt, selector, results, penny_deals,
                   payload, prior_run, dirExists, csvFile, error>>
    /\ UNCHANGED normVars

(* Line 167 raises OSError: before the file is opened (the file is as it   *)
(* was) or while it is written (the file is truncated or incomplete).      *)
WriteJsonRaises ==
    /\ pc = "write_json"
    /\ jsonFile' \in {jsonFile, "partial"}
    /\ Raise("io_error")
    /\ UNCHANGED <<retries, backoff, attempt, outcomes, sleeps, response, clientOpen,
                   clientsAcquired, now, firstFetchAt, selector, results, penny_deals,
                   payload, prior_run, dirExists, csvFile>>
    /\ UNCHANGED normVars

(* Lines 168-171: the sidecar is opened, written and closed. *)
WriteCsvReturns ==
    /\ pc = "write_csv"
    /\ csvFile' = "new"
    /\ pc' = "print"
    /\ UNCHANGED <<retries, backoff, attempt, outcomes, sleeps, response, clientOpen,
                   clientsAcquired, now, firstFetchAt, selector, results, penny_deals,
                   payload, prior_run, dirExists, jsonFile, error>>
    /\ UNCHANGED normVars

(* Lines 168-171 raise OSError: at open (the sidecar is as it was) or      *)
(* while the rows are written (the sidecar is truncated or incomplete).    *)
WriteCsvRaises ==
    /\ pc = "write_csv"
    /\ csvFile' \in {csvFile, "partial"}
    /\ Raise("io_error")
    /\ UNCHANGED <<retries, backoff, attempt, outcomes, sleeps, response, clientOpen,
                   clientsAcquired, now, firstFetchAt, selector, results, penny_deals,
                   payload, prior_run, dirExists, jsonFile>>
    /\ UNCHANGED normVars

(* Lines 173-175. *)
PrintSummary ==
    /\ pc = "print"
    /\ pc' = "done"
    /\ UNCHANGED <<retries, backoff, attempt, outcomes, sleeps, response, clientOpen,
                   clientsAcquired, now, firstFetchAt, selector, results, penny_deals,
                   payload, prior_run, dirExists, jsonFile, csvFile, error>>
    /\ UNCHANGED normVars

Next ==
    \/ Start
    \/ RequestReturns
    \/ RequestCaught
    \/ RequestUncaught
    \/ Sleep
    \/ ParseReturns
    \/ ParseRaises
    \/ Extract
    \/ Classify
    \/ MkdirReturns
    \/ MkdirRaises
    \/ BuildPayload
    \/ WriteJsonReturns
    \/ WriteJsonRaises
    \/ WriteCsvReturns
    \/ WriteCsvRaises
    \/ PrintSummary

Spec == Init /\ [][Next]_vars

----------------------------------------------------------------------------
(* normalize_price on its own: one call on an arbitrary short text. *)

NormAlphabet == {"$", ",", " ", "-", ".", "4", "9", "n", "a", "i", "f"}

NormSamples ==
    { <<"$", "1", ",", "2", "3", "4", ".", "5", "0">>,
      <<"N", "/", "A">>,
      <<"-", "i", "n", "f">>,
      <<" ", "$", " ", "4", ".", "9", "9", " ">> }

InitNorm ==
    /\ pc = "start"
    /\ retries = 0
    /\ backoff = 1
    /\ attempt = 0
    /\ outcomes = <<>>
    /\ sleeps = <<>>
    /\ response = NoResponse
    /\ clientOpen = FALSE
    /\ clientsAcquired = 0
    /\ now = RunStartedAt
    /\ firstFetchAt = 0
    /\ selector = <<>>
    /\ results = <<>>
    /\ penny_deals = <<>>
    /\ payload = NoPayload
    /\ prior_run = FALSE
    /\ dirExists = FALSE
    /\ jsonFile = "absent"
    /\ csvFile = "absent"
    /\ error = "none"
    /\ raw_price \in Chars(NormAlphabet, MaxLen) \cup NormSamples
    /\ price_value = None
    /\ norm_pc = "call"

(* Lines 23-30: the call returns. *)
Normalize ==
    /\ norm_pc = "call"
    /\ price_value' = normalize_price(raw_price)
    /\ norm_pc' = "returned"
    /\ UNCHANGED raw_price
    /\ UNCHANGED runVars

NextNorm == Normalize

SpecNorm == InitNorm /\ [][NextNorm]_vars

----------------------------------------------------------------------------
(* Properties. *)

AllTimeouts(n) == \A k \in 1..n : outcomes[k] = "timeout"

FetchReturned == response # NoResponse

FetchFailed == error \in Failures

RECURSIVE Sum(_)
Sum(s) == IF s = <<>> THEN 0 ELSE Head(s) + Sum(Tail(s))

(* C1: a fetch issues at most retries + 1 requests; it goes on while at    *)
(* most `retries` requests have timed out; when the first `retries`        *)
(* requests time out and the next one succeeds, the fetch returns the      *)
(* response of that last request; a fetch fails with the timeout exactly   *)
(* when retries + 1 requests have timed out, and issues no request after.  *)
C1_RetryBoundary ==
    /\ Len(outcomes) <= retries + 1
    /\ (Len(outcomes) <= retries /\ AllTimeouts(Len(outcomes)) /\ pc # "start")
         => (pc \in {"request", "sleep"} /\ error = "none")
    /\ (Len(outcomes) = retries + 1 /\ AllTimeouts(retries)
          /\ outcomes[retries + 1] = "ok")
         => (FetchReturned /\ ~FetchFailed /\ response.attempt = retries + 1)
    /\ (Len(outcomes) = retries + 1 /\ AllTimeouts(retries + 1))
         => (pc = "failed" /\ error = "timeout" /\ ~FetchReturned)
    /\ error = "timeout"
         => (Len(outcomes) = retries + 1 /\ AllTimeouts(retries + 1))

(* C1 witness: a fetch that timed out `retries` >= 1 times has just        *)
(* returned the response of attempt retries + 1.                           *)
C1_Witness ==
    /\ retries >= 1
    /\ pc = "parse"
    /\ AllTimeouts(retries)
    /\ response.attempt = retries + 1

(* C2: a failure that is not a timeout is the last request of the fetch:   *)
(* the run has failed with it and no wait followed it.                     *)
C2_PermanentFailureEndsFetch ==
    \A k \in 1..Len(outcomes) :
        outcomes[k] \notin {"ok", "timeout"}
          => /\ k = Len(outcomes)
             /\ pc = "failed"
             /\ error = outcomes[k]
             /\ Len(sleeps) = k - 1

(* C2 witness: a bad status after a timeout, with retries still left. *)
C2_Witness ==
    /\ Len(outcomes) = 2
    /\ outcomes[1] = "timeout"
    /\ outcomes[2] = "bad_status"
    /\ retries >= 2
    /\ pc = "failed"

(* C3: the k-th wait is backoff * k; every timeout but the one that        *)
(* exhausts the retries is followed by one wait, and nothing else is.      *)
C3_LinearBackoff ==
    /\ \A k \in 1..Len(sleeps) : sleeps[k] = backoff * k
    /\ \A k \in 1..Len(sleeps) : outcomes[k] = "timeout"
    /\ Len(sleeps) <= retries
    /\ pc = "start" => (sleeps = <<>> /\ outcomes = <<>>)
    /\ pc = "request" => Len(sleeps) = Len(outcomes)
    /\ pc \notin {"start", "request"} => Len(sleeps) = Len(outcomes) - 1

(* C3 witness: two waits were made and the third timeout ended the fetch. *)
C3_Witness ==
    /\ Len(sleeps) = 2
    /\ sleeps[2] = 2 * backoff
    /\ backoff >= 2
    /\ pc = "failed"
    /\ error = "timeout"

MaxPrices == {0, 499, 500, 501, 2000}

(* The record's normalized price is present and below max_price. *)
Qualifies(deal, max_cents) ==
    LET v == normalize_price(deal.price)
    IN  v.kind # "none" /\ LessThan(v, max_cents)

PayloadBuilt == payload # NoPayload

(* C4: when classification returns, penny_deals is the order-preserving   *)
(* selection of the records of deals that qualify; a record priced at      *)
(* max_price is not selected; the same holds of filter_penny_deals for     *)
(* every max_price; the payload, when built and ever after, carries        *)
(* these two lists and their lengths.                                      *)
C4_Classification ==
    /\ pc = "mkdir" =>
         /\ penny_deals = SelectSeq(results, LAMBDA d : Qualifies(d, DefaultMaxPrice))
         /\ \A k \in 1..Len(penny_deals) :
               normalize_price(penny_deals[k].price) \notin {None, Num(FALSE, 500, 100)}
         /\ \A mp \in MaxPrices :
               filter_penny_deals(results, mp) = SelectSeq(results, LAMBDA d : Qualifies(d, mp))
    /\ pc = "write_json" =>
         /\ payload.deals = results
         /\ payload.penny_deals = SelectSeq(results, LAMBDA d : Qualifies(d, DefaultMaxPrice))
    /\ PayloadBuilt =>
         /\ payload.deals = results
         /\ payload.penny_deals = penny_deals
         /\ payload.deal_count = Len(payload.deals)
         /\ payload.penny_deal_count = Len(payload.penny_deals)

(* C4 witness: a finished run whose deals hold a record priced at          *)
(* max_price and one priced below it.                                      *)
C4_Witness ==
    /\ pc = "done"
    /\ Len(results) = 2
    /\ Len(penny_deals) = 1
    /\ \E k \in 1..2 : normalize_price(results[k].price) = Num(FALSE, 500, 100)

DiskUntouched ==
    /\ dirExists = prior_run
    /\ jsonFile = (IF prior_run THEN "old" ELSE "absent")
    /\ csvFile = (IF prior_run THEN "old" ELSE "absent")

(* C5: when the fetch has failed the run has ended, and the directory and  *)
(* both files are as they were before the run.                             *)
C5_NoPersistenceAfterFetchFailure ==
    FetchFailed => (pc = "failed" /\ DiskUntouched /\ ~PayloadBuilt)

(* C5 witness: fetches that failed, on a disk with no earlier output, by   *)
(* a bad status.                                                           *)
C5_Witness ==
    /\ pc = "failed"
    /\ error = "bad_status"
    /\ ~prior_run
    /\ ~dirExists

(* C6: a run ended by an I/O failure leaves no partial output: not this    *)
(* run's primary file without this run's sidecar, and no incomplete file.  *)
C6_NoPartialOutput ==
    (pc = "failed" /\ error = "io_error")
      => /\ ~(jsonFile = "new" /\ csvFile # "new")
         /\ jsonFile # "partial"
         /\ csvFile # "partial"

HasLink(card) == card.has_href /\ Len(card.href) > 0

(* C7: every record of results, penny_deals and the payload has a          *)
(* non-empty url; when extraction returns, the records are those of the    *)
(* cards with a non-empty href, one each, in document order.               *)
C7_NonEmptyUrl ==
    /\ \A k \in 1..Len(results) : Len(results[k].url) > 0
    /\ \A k \in 1..Len(penny_deals) : Len(penny_deals[k].url) > 0
    /\ \A k \in 1..Len(payload.deals) : Len(payload.deals[k].url) > 0
    /\ \A k \in 1..Len(payload.penny_deals) : Len(payload.penny_deals[k].url) > 0
    /\ pc = "classify" =>
         LET linked == SelectSeq(selector, HasLink)
         IN  /\ Len(results) = Len(linked)
             /\ \A k \in 1..Len(linked) :
                   /\ results[k].title = linked[k].title
                   /\ results[k].price = Strip(JoinSpace(linked[k].price_nodes))

(* C7 witness: a page whose first card has no usable href and whose second *)
(* card has one was extracted.                                             *)
C7_Witness ==
    /\ pc = "classify"
    /\ Len(selector) = 2
    /\ ~HasLink(selector[1])
    /\ HasLink(selector[2])
    /\ Len(results) = 1

(* C8 as stated: the payload's scraped_at is the time of run start, so     *)
(* not later than the first request nor than any record's scraped_at.      *)
C8_ScrapedAtIsRunStart ==
    PayloadBuilt =>
        /\ payload.scraped_at <= firstFetchAt
        /\ \A k \in 1..Len(payload.deals) :
              payload.scraped_at <= payload.deals[k].scraped_at

(* C8 amended: the payload's scraped_at is read from the clock when the    *)
(* payload is built: it is the latest reading of the run, not earlier than *)
(* the first request plus the waits made, nor than any record's            *)
(* scraped_at.                                                             *)
C8_ScrapedAtIsBuildTime ==
    PayloadBuilt =>
        /\ payload.scraped_at = now
        /\ payload.scraped_at >= firstFetchAt + Sum(sleeps)
        /\ \A k \in 1..Len(payload.deals) :
              payload.scraped_at >= payload.deals[k].scraped_at

(* C8 witness: a payload stamped later than the first request and than     *)
(* its records.                                                            *)
C8_Witness ==
    /\ PayloadBuilt
    /\ Len(payload.deals) > 0
    /\ payload.scraped_at > payload.deals[1].scraped_at
    /\ payload.deals[1].scraped_at > firstFetchAt

(* C9: one client is constructed per run; it is open during the requests,  *)
(* the waits and the parse, and closed in every later state, whether the   *)
(* fetch stage ended normally or by an exception.                          *)
C9_ClientReleased ==
    /\ clientsAcquired = (IF pc = "start" THEN 0 ELSE 1)
    /\ clientOpen <=> pc \in {"request", "sleep", "parse"}

(* C9 witness: the parse raised and the client is closed. *)
C9_Witness ==
    /\ pc = "failed"
    /\ error = "parse_error"
    /\ ~clientOpen
    /\ clientsAcquired = 1

(* A plain decimal number: an optional sign, then digits with at most one  *)
(* point among them and at least one digit.                                *)
IsPlainDecimal(s) ==
    LET body == IF s # <<>> /\ Head(s) \in {"+", "-"} THEN Tail(s) ELSE s
    IN  /\ \A k \in 1..Len(body) : body[k] \in Digits \cup {"."}
        /\ Cardinality({k \in 1..Len(body) : body[k] = "."}) <= 1
        /\ \E k \in 1..Len(body) : body[k] \in Digits

(* C10: normalize_price returns a number only when the text, without "$",  *)
(* "," and surrounding whitespace, is a plain decimal number; otherwise    *)
(* it returns None.                                                        *)
C10_AbsentUnlessDecimal ==
    norm_pc = "returned" =>
        (price_value # None
           => IsPlainDecimal(Strip(Remove(Remove(raw_price, "$"), ","))))

====
